---- MODULE Spec2Model ----
(***************************************************************************)
(* The climate-indicator pipeline of semester_project.py: a CSV of daily   *)
(* temperatures is loaded, its columns normalised, its dates parsed, the   *)
(* days classified into the comfortable and the hot band, and the yearly,  *)
(* monthly, heatmap, top-month and summary tables derived from them.       *)
(*                                                                         *)
(* The script is one straight line of statements; pc is the position in    *)
(* it, and every action is one block of the script.  Numbers:              *)
(*   - a float cell is a record [nan, num, den]: NaN, or the rational      *)
(*     num/den (temp_std holds the sample VARIANCE num/den, the standard   *)
(*     deviation being its square root);                                   *)
(*   - a name (column name) is a sequence of Unicode code points, so that  *)
(*     strip(), lower() and the substring test are computed;               *)
(*   - a raw date cell is <<y, m, d>>, the three fields of its text; a     *)
(*     parsed date is the record [year, month, day].                       *)
(***************************************************************************)
EXTENDS Integers, Sequences, FiniteSets, TLC

VARIABLES pc, err, file, df, comfortable, hot_days, yearly_stats,
          yearly_comfort, yearly_hot, yearly, monthly_comfort, heatmap_data,
          monthly_counts, top_months, summary_table, charts

vars == <<pc, err, file, df, comfortable, hot_days, yearly_stats,
          yearly_comfort, yearly_hot, yearly, monthly_comfort, heatmap_data,
          monthly_counts, top_months, summary_table, charts>>

(* ------------------------------ bounds --------------------------------- *)

\* Largest number of data rows of the input file.
MaxRows == 3

(* ------------------------------ strings -------------------------------- *)

\* the characters str.strip() removes (those with str.isspace()):
\* U+0009..U+000D, U+001C..U+0020, U+0085, U+00A0, U+1680, U+2000..U+200A,
\* U+2028, U+2029, U+202F, U+205F, U+3000
Whitespace ==
    (9..13) \cup (28..32) \cup {133, 160, 5760} \cup (8192..8202)
        \cup {8232, 8233, 8239, 8287, 12288}

\* the upper-case letters of ASCII and Latin-1: A..Z, U+00C0..U+00D6,
\* U+00D8..U+00DE; names are taken over the code points 0..255 and the
\* whitespace above
UpperCase == (65..90) \cup (192..214) \cup (216..222)

\* str.lower() on one character.
LowerChar(c) == IF c \in UpperCase THEN c + 32 ELSE c

\* str.lower()
Lower(s) == [i \in DOMAIN s |-> LowerChar(s[i])]

\* str.strip(): leading and trailing whitespace removed.
Strip(s) ==
    LET lead == Cardinality({i \in DOMAIN s : \A j \in 1..i : s[j] \in Whitespace})
        trail == Cardinality({i \in DOMAIN s :
                                 \A j \in i..Len(s) : s[j] \in Whitespace})
    IN  IF lead = Len(s) THEN <<>>
        ELSE SubSeq(s, lead + 1, Len(s) - trail)

\* Python's  sub in s  on strings.
Contains(s, sub) ==
    \E i \in 1..(Len(s) - Len(sub) + 1) : SubSeq(s, i, i + Len(sub) - 1) = sub

\* df.columns.str.strip().str.lower()
NormaliseColumns(cols) == [i \in DOMAIN cols |-> Lower(Strip(cols[i]))]

\* "temp_c"
n_temp_c == <<116, 101, 109, 112, 95, 99>>
\* "temp"
n_temp == <<116, 101, 109, 112>>
\* "date"
n_date == <<100, 97, 116, 101>>
\* "lat"
n_lat == <<108, 97, 116>>
\* "lon"
n_lon == <<108, 111, 110>>
\* "year"
n_year == <<121, 101, 97, 114>>
\* "month"
n_month == <<109, 111, 110, 116, 104>>

(* ------------------------------ floats --------------------------------- *)

NaN == [nan |-> TRUE, num |-> 0, den |-> 1]

Float(n) == [nan |-> FALSE, num |-> n, den |-> 1]

Ratio(n, d) == [nan |-> FALSE, num |-> n, den |-> d]

\* x.fillna(0) on one cell
FillNa0(x) == IF x.nan THEN Float(0) ELSE x

RECURSIVE FloorLog2(_)
\* the exponent of the leading bit of n >= 1
FloorLog2(n) == IF n < 2 THEN 0 ELSE 1 + FloorLog2(n \div 2)

RECURSIVE ShiftsUpTo(_, _)
\* the least j with a * 2^j >= b, for 0 < a
ShiftsUpTo(a, b) == IF a >= b THEN 0 ELSE 1 + ShiftsUpTo(2 * a, b)

RECURSIVE DivSteps(_, _, _, _)
\* n further bits of the binary long division with remainder r and divisor
\* b: <<the remainder left, the last bit produced>>
DivSteps(r, b, last, n) ==
    IF n = 0 THEN <<r, last>>
    ELSE IF 2 * r >= b THEN DivSteps(2 * r - b, b, 1, n - 1)
         ELSE DivSteps(2 * r, b, 0, n - 1)

\* rint(x * scale) for the float64 x nearest to the decimal tie
\* (2k + 1) / (2 * scale), as IEEE-754 computes it.  With N = 2k + 1 and
\* D = 2 * scale: the quotient N/D is rounded to 53 bits (error err, in units
\* of the last place of x), the product with scale is exactly
\* k + 1/2 + err * ulp(x) * scale and is rounded to 53 bits again; it
\* becomes k + 1/2 (which rint sends to the even neighbour) when the error is
\* within half a unit of the last place of k + 1/2, and otherwise lies
\* strictly on the side of the error.
RintOfTie(k, scale) ==
    LET N == 2 * k + 1
        D == 2 * scale
        \* x = (a / b) * 2^e with 1 <= a/b < 2
        up == IF N >= D THEN FloorLog2(N \div D) ELSE 0
        down == ShiftsUpTo(N, D)
        e == up - down
        a == N * (2 ^ down)
        b == D * (2 ^ up)
        \* the 52 bits after the leading one
        q == DivSteps(a - b, b, 1, 52)
        r == q[1]
        roundsUp == 2 * r > b \/ (2 * r = b /\ q[2] = 1)
        \* k + 1/2 = N/2 lies in [2^E, 2^(E+1))
        g == (FloorLog2(N) - 1) - e
        dist == IF roundsUp THEN b - r ELSE r
        \* below a power of two the spacing of the floats is halved
        narrow == IF N = 1 /\ ~roundsUp THEN 2 ELSE 1
        stays == narrow * D * dist <= (2 ^ g) * b
    IN  IF stays THEN (IF k % 2 = 0 THEN k ELSE k + 1)
        ELSE IF roundsUp THEN k + 1 ELSE k

\* rint(x * scale) for the float64 x nearest to n/d (d > 0, n >= 0): off a
\* decimal tie the nearest integer of the exact product, the rounding errors
\* being far smaller than the distance 1/(2d) to the nearest tie
RintScaled(n, d, scale) ==
    LET q == (n * scale) \div d
        r == (n * scale) % d
    IN  IF 2 * r < d THEN q
        ELSE IF 2 * r > d THEN q + 1
        ELSE RintOfTie(q, scale)

\* Series.round(k) on one cell, scale = 10^k: numpy's rint(x * scale) / scale
\* on the float64 x = num/den; the result is a multiple of 1/scale
RoundTo(x, scale) ==
    IF x.nan THEN x
    ELSE IF x.num < 0 THEN Ratio(0 - RintScaled(0 - x.num, x.den, scale), scale)
    ELSE Ratio(RintScaled(x.num, x.den, scale), scale)

(* ------------------------------ sequences ------------------------------ *)

RECURSIVE SortedSeq(_)
\* the elements of a finite set of integers, ascending
SortedSeq(S) ==
    IF S = {} THEN <<>>
    ELSE LET m == CHOOSE x \in S : \A y \in S : x <= y
         IN  <<m>> \o SortedSeq(S \ {m})

RECURSIVE SelectRows(_, _)
\* boolean-mask selection df[mask]: the rows at the positions in keep, in order
SelectRows(rows, keep) ==
    IF rows = <<>> THEN <<>>
    ELSE LET n == Len(rows)
             rest == SelectRows(SubSeq(rows, 1, n - 1), keep)
         IN  IF n \in keep THEN Append(rest, rows[n]) ELSE rest

RECURSIVE SumSeq(_)
SumSeq(s) == IF s = <<>> THEN 0 ELSE s[1] + SumSeq(Tail(s))

Range(s) == {s[i] : i \in DOMAIN s}

(* ------------------------------ cells ---------------------------------- *)

\* an object (string) cell; a missing one is NaN
Str(s) == [nan |-> FALSE, str |-> s]

\* calendar.month_name: index 0 is the empty string
month_name == <<"January", "February", "March", "April", "May", "June", "July",
                "August", "September", "October", "November", "December">>

\* calendar.month_name[x]
MonthName(x) == IF x = 0 THEN "" ELSE month_name[x]

IsLeap(y) == (y % 4 = 0 /\ y % 100 # 0) \/ y % 400 = 0

DaysInMonth(y, m) ==
    IF m = 2 THEN (IF IsLeap(y) THEN 29 ELSE 28)
    ELSE IF m \in {4, 6, 9, 11} THEN 30 ELSE 31

\* variant: only the month of the text is validated
ParseableMonthOnly(c) == c[2] \in 1..12

\* whether pd.to_datetime can parse the text with fields <<y, m, d>>
Parseable(c) ==
    /\ c[2] \in 1..12
    /\ c[3] \in 1..DaysInMonth(c[1], c[2])

\* pd.to_datetime on one parseable cell
ToDatetime(c) == [year |-> c[1], month |-> c[2], day |-> c[3]]

(* ------------------------------ data frame ----------------------------- *)

HasCol(d, name) == \E i \in DOMAIN d.columns : d.columns[i] = name

ColIndex(d, name) == CHOOSE i \in DOMAIN d.columns : d.columns[i] = name

\* df[name]: the cells of one column, by row
Col(d, name) == [r \in DOMAIN d.rows |-> d.rows[r][ColIndex(d, name)]]

\* df[name] = values: replaces the column when it exists, appends it otherwise
SetCol(d, name, values) ==
    IF HasCol(d, name)
    THEN [d EXCEPT !.rows =
             [r \in DOMAIN d.rows |->
                 [d.rows[r] EXCEPT ![ColIndex(d, name)] = values[r]]]]
    ELSE [columns |-> Append(d.columns, name),
          rows |-> [r \in DOMAIN d.rows |-> Append(d.rows[r], values[r])]]

\* variant: the loop does not stop at the first match, so the last column
\* whose name contains "temp" is the one renamed
RenameTempLast(d) ==
    IF HasCol(d, n_temp_c) THEN d
    ELSE LET hits == {i \in DOMAIN d.columns : Contains(d.columns[i], n_temp)}
         IN  IF hits = {} THEN d
             ELSE LET last == CHOOSE i \in hits : \A j \in hits : j <= i
                  IN  [d EXCEPT !.columns[last] = n_temp_c]

\* the loop of lines 23-27: the first column whose name contains "temp"
\* is renamed temp_c, when no column is named temp_c
RenameTemp(d) ==
    IF HasCol(d, n_temp_c) THEN d
    ELSE LET hits == {i \in DOMAIN d.columns : Contains(d.columns[i], n_temp)}
         IN  IF hits = {} THEN d
             ELSE LET first == CHOOSE i \in hits : \A j \in hits : i <= j
                      col == d.columns[first]
                  IN  [d EXCEPT !.columns =
                          [i \in DOMAIN d.columns |->
                              IF d.columns[i] = col THEN n_temp_c
                              ELSE d.columns[i]]]

\* Islamabad, in ten-thousandths of a degree
lat == 336844
lon == 730479

(* ------------------------------ indicators ----------------------------- *)

\* variant: the lower bound of the comfortable band taken as exclusive
IsComfortableStrict(t) == t > 18 /\ t <= 25

\* mask of line 39
IsComfortable(t) == t >= 18 /\ t <= 25

\* mask of line 40
IsHot(t) == t > 35

\* df[mask]: the rows at the positions in keep, in file order, projected on
\* the columns used downstream (year, month, temp_c)
Band(d, keep) ==
    LET t == Col(d, n_temp_c)
        y == Col(d, n_year)
        m == Col(d, n_month)
        all == [r \in DOMAIN d.rows |->
                   [year |-> y[r], month |-> m[r], temp_c |-> t[r]]]
    IN  SelectRows(all, keep)

Years(rows) == {rows[i].year : i \in DOMAIN rows}

\* the rows of one group, in their original order
OfYear(rows, y) == SelectRows(rows, {i \in DOMAIN rows : rows[i].year = y})

OfYearMonth(rows, y, m) ==
    SelectRows(rows, {i \in DOMAIN rows : rows[i].year = y /\ rows[i].month = m})

\* groupby("year").agg(mean, std): one row per year, ascending; temp_std
\* holds the sample variance (ddof = 1), NaN for a single observation
YearlyStats(d) ==
    LET all == Band(d, DOMAIN d.rows)
        ys == SortedSeq(Years(all))
    IN  [k \in DOMAIN ys |->
            LET g == OfYear(all, ys[k])
                n == Len(g)
                s == SumSeq([i \in DOMAIN g |-> g[i].temp_c])
                q == SumSeq([i \in DOMAIN g |-> g[i].temp_c * g[i].temp_c])
            IN  [year |-> ys[k],
                 avg_temp_c |-> Ratio(s, n),
                 temp_std |-> IF n < 2 THEN NaN
                              ELSE Ratio(n * q - s * s, n * (n - 1))]]

\* sub.groupby("year").size().reset_index(name=...): one row per year that
\* occurs in sub, ascending
SizeByYear(sub, name) ==
    LET ys == SortedSeq(Years(sub))
    IN  [k \in DOMAIN ys |->
            (name :> Float(Len(OfYear(sub, ys[k])))) @@ [year |-> ys[k]]]

YearMonths(rows) == {<<rows[i].year, rows[i].month>> : i \in DOMAIN rows}

RECURSIVE SortedPairs(_)
\* (year, month) pairs in lexicographic order, as groupby sorts its keys
SortedPairs(S) ==
    IF S = {} THEN <<>>
    ELSE LET m == CHOOSE x \in S : \A y \in S :
                      x[1] < y[1] \/ (x[1] = y[1] /\ x[2] <= y[2])
         IN  <<m>> \o SortedPairs(S \ {m})

\* variant: the size of the year group in place of the (year, month) group
SizeOfYearByMonth(sub, name) ==
    LET ks == SortedPairs(YearMonths(sub))
    IN  [k \in DOMAIN ks |->
            (name :> Float(Len(OfYear(sub, ks[k][1]))))
            @@ [year |-> ks[k][1], month |-> ks[k][2]]]

\* sub.groupby(["year", "month"]).size().reset_index(name=...)
SizeByYearMonth(sub, name) ==
    LET ks == SortedPairs(YearMonths(sub))
    IN  [k \in DOMAIN ks |->
            (name :> Float(Len(OfYearMonth(sub, ks[k][1], ks[k][2]))))
            @@ [year |-> ks[k][1], month |-> ks[k][2]]]

RECURSIVE InnerMerge(_, _, _)
\* variant: how="inner", a left row without a match is dropped
InnerMerge(left, right, cols) ==
    IF left = <<>> THEN <<>>
    ELSE LET l == left[Len(left)]
             hit == OfYear(right, l.year)
             head == InnerMerge(SubSeq(left, 1, Len(left) - 1), right, cols)
         IN  head \o [i \in DOMAIN hit |-> [c \in cols |-> hit[i][c]] @@ l]

RECURSIVE LeftMerge(_, _, _)
\* left.merge(right, on="year", how="left"): every left row once per matching
\* right row, or once with NaN in the right's columns when none matches
LeftMerge(left, right, cols) ==
    IF left = <<>> THEN <<>>
    ELSE LET l == left[Len(left)]
             hit == OfYear(right, l.year)
             head == LeftMerge(SubSeq(left, 1, Len(left) - 1), right, cols)
         IN  IF hit = <<>>
             THEN Append(head, [c \in cols |-> NaN] @@ l)
             ELSE head \o [i \in DOMAIN hit |-> [c \in cols |-> hit[i][c]] @@ l]

\* DataFrame.fillna(0) on a table of float cells
FillNaTable(t) ==
    [i \in DOMAIN t |-> [c \in DOMAIN t[i] |->
        IF c = "year" THEN t[i][c] ELSE FillNa0(t[i][c])]]

\* x / 365 * 100 on a float cell (no count makes the ratio a decimal tie of
\* the rounding to one place, 365 = 5 * 73)
ComfortRatio(x) == IF x.nan THEN x ELSE Ratio(x.num * 100, x.den * 365)

\* variant: lines 72-73 without the fillna of line 71
FinishYearlyNoFill(t) ==
    [i \in DOMAIN t |->
        [comfort_ratio |-> RoundTo(ComfortRatio(t[i].comfortable_days), 10)]
        @@ [t[i] EXCEPT !.avg_temp_c = RoundTo(t[i].avg_temp_c, 100)]]

\* lines 71-73
FinishYearly(t) ==
    LET f == FillNaTable(t)
    IN  [i \in DOMAIN f |->
            [comfort_ratio |-> RoundTo(ComfortRatio(f[i].comfortable_days), 10)]
            @@ [f[i] EXCEPT !.avg_temp_c = RoundTo(f[i].avg_temp_c, 100)]]

\* monthly_comfort.pivot(index="year", columns="month", values="count")
\* .fillna(0)
Pivot(mc) ==
    LET ys == SortedSeq({mc[i].year : i \in DOMAIN mc})
        ms == SortedSeq({mc[i].month : i \in DOMAIN mc})
    IN  [index |-> ys, columns |-> ms,
         values |-> [p \in Range(ys) \X Range(ms) |->
             LET hit == {i \in DOMAIN mc : mc[i].year = p[1] /\ mc[i].month = p[2]}
             IN  FillNa0(IF hit = {} THEN NaN ELSE mc[CHOOSE i \in hit : TRUE].count)]]

\* variant: the label of the last occurrence of the maximum
IdxMaxLast(t, y) ==
    LET g == {i \in DOMAIN t : t[i].year = y}
        best == {i \in g : \A j \in g : t[j].monthly_days.num <= t[i].monthly_days.num}
    IN  CHOOSE i \in best : \A j \in best : j <= i

\* Series.idxmax() within one group: the label of the first occurrence of
\* the maximum
IdxMax(t, y) ==
    LET g == {i \in DOMAIN t : t[i].year = y}
        best == {i \in g : \A j \in g : t[j].monthly_days.num <= t[i].monthly_days.num}
    IN  CHOOSE i \in best : \A j \in best : i <= j

\* variant: every row that reaches the maximum of its year is kept
TopMonthsAllMax(t) ==
    LET best == {i \in DOMAIN t : \A j \in DOMAIN t :
                    t[j].year = t[i].year =>
                        t[j].monthly_days.num <= t[i].monthly_days.num}
        rs == SelectRows(t, best)
    IN  [k \in DOMAIN rs |->
            [year |-> rs[k].year, month |-> rs[k].month,
             monthly_days |-> rs[k].monthly_days,
             month_name |-> Str(MonthName(rs[k].month))]]

\* lines 169-171
TopMonths(t) ==
    LET ys == SortedSeq({t[i].year : i \in DOMAIN t})
    IN  [k \in DOMAIN ys |->
            LET r == t[IdxMax(t, ys[k])]
            IN  [year |-> r.year, month |-> r.month,
                 monthly_days |-> r.monthly_days,
                 month_name |-> Str(MonthName(r.month))]]

(* ------------------------------ input files ---------------------------- *)

\* "\nDate" (a quoted field)
c_date == <<10, 68, 97, 116, 101>>
\* "Temp_C" followed by a no-break space and a space
c_temp_c == <<84, 101, 109, 112, 95, 67, 160, 32>>
\* "Temperature"
c_temperature == <<84, 101, 109, 112, 101, 114, 97, 116, 117, 114, 101>>
\* "temp_max"
c_temp_max == <<116, 101, 109, 112, 95, 109, 97, 120>>
\* "min_temp"
c_min_temp == <<109, 105, 110, 95, 116, 101, 109, 112>>
\* "humidity\f"
c_humidity == <<104, 117, 109, 105, 100, 105, 116, 121, 12>>
\* "day"
c_day == <<100, 97, 121>>

\* header needing only normalisation
H_main   == <<c_date, c_temp_c>>
\* no temp_c, one column containing "temp"
H_rename == <<n_date, c_temperature>>
\* a column containing "temp" ahead of the exact temp_c
H_exact  == <<n_date, c_temp_max, n_temp_c>>
\* no temp_c, two columns containing "temp"
H_first  == <<n_date, c_min_temp, c_temp_max>>
\* no column containing "temp"
H_notemp == <<n_date, c_humidity>>
\* no date column
H_nodate == <<c_day, n_temp_c>>

MainDates == {<<2000, 1, 5>>, <<2000, 2, 10>>, <<2001, 1, 7>>}
MainTemps == {17, 18, 25, 35, 36}
\* 2001-02-30 and 2000-13-01 are not dates
MixedDates == {<<2000, 12, 25>>, <<2001, 2, 30>>, <<2000, 13, 1>>}

\* the rows a file with the given header may hold
RowsOf(h) ==
    IF h = H_main THEN {<<d, t>> : d \in MainDates, t \in MainTemps}
    ELSE IF h = H_rename THEN {<<d, t>> : d \in MixedDates, t \in {20, 36}}
    ELSE IF h \in {H_exact, H_first}
         THEN {<<d, a, b>> : d \in {<<2000, 1, 5>>}, a \in {20, 40}, b \in {20, 40}}
    ELSE IF h = H_notemp
         THEN {<<d, 50>> : d \in {<<2000, 1, 5>>, <<2001, 2, 30>>}}
    ELSE {<<d, 20>> : d \in {<<2000, 1, 5>>}}

Headers == {H_main, H_rename, H_exact, H_first, H_notemp, H_nodate}

\* what pd.read_csv finds at DATA_PATH: no file, a file without a header
\* line, a text the parser rejects, or a table
FileKinds == {"missing", "empty", "malformed", "table"}

\* the input files: a table has a header and one to MaxRows rows
IsFile(f) ==
    \/ \E k \in FileKinds \ {"table"} :
          f = [kind |-> k, header |-> <<>>, rows |-> <<>>]
    \/ \E h \in Headers : \E n \in 1..MaxRows : \E r \in [1..n -> RowsOf(h)] :
          f = [kind |-> "table", header |-> h, rows |-> r]

(* ------------------------------ the script ----------------------------- *)

\* The plotting calls (go.Figure, px.*, st.plotly_chart) are taken to
\* succeed; charts records which figures have been handed to the page.

NoFrame == [columns |-> <<>>, rows |-> <<>>]
NoMatrix == [index |-> <<>>, columns |-> <<>>, values |-> <<>>]

Init ==
    /\ pc = "load"
    /\ err = "none"
    /\ IsFile(file)
    /\ df = NoFrame
    /\ comfortable = <<>>
    /\ hot_days = <<>>
    /\ yearly_stats = <<>>
    /\ yearly_comfort = <<>>
    /\ yearly_hot = <<>>
    /\ yearly = <<>>
    /\ monthly_comfort = <<>>
    /\ heatmap_data = NoMatrix
    /\ monthly_counts = <<>>
    /\ top_months = <<>>
    /\ summary_table = <<>>
    /\ charts = <<>>

\* the exception pd.read_csv raises for a file that is not a table
ReadCsvError(kind) ==
    CASE kind = "missing" -> "FileNotFoundError"
      [] kind = "empty" -> "EmptyDataError"
      [] kind = "malformed" -> "ParserError"

\* lines 17-20: read_csv, then the column names stripped and lower-cased
LoadData ==
    /\ pc = "load"
    /\ file.kind = "table"
    /\ df' = [columns |-> NormaliseColumns(file.header), rows |-> file.rows]
    /\ pc' = "rename"
    /\ UNCHANGED <<err, file, comfortable, hot_days, yearly_stats, yearly_comfort,
                   yearly_hot, yearly, monthly_comfort, heatmap_data,
                   monthly_counts, top_months, summary_table, charts>>

\* lines 23-27
RenameTemperature ==
    /\ pc = "rename"
    /\ df' = RenameTemp(df)
    /\ pc' = "coords"
    /\ UNCHANGED <<err, file, comfortable, hot_days, yearly_stats, yearly_comfort,
                   yearly_hot, yearly, monthly_comfort, heatmap_data,
                   monthly_counts, top_months, summary_table, charts>>

\* lines 30-31
AddCoordinates ==
    /\ pc = "coords"
    /\ df' = SetCol(SetCol(df, n_lat, [r \in DOMAIN df.rows |-> lat]),
                    n_lon, [r \in DOMAIN df.rows |-> lon])
    /\ pc' = "dates"
    /\ UNCHANGED <<err, file, comfortable, hot_days, yearly_stats, yearly_comfort,
                   yearly_hot, yearly, monthly_comfort, heatmap_data,
                   monthly_counts, top_months, summary_table, charts>>

\* the script stops with an uncaught exception
Raise(e) ==
    /\ err' = e
    /\ pc' = "failed"
    /\ UNCHANGED <<file, df, comfortable, hot_days, yearly_stats, yearly_comfort,
                   yearly_hot, yearly, monthly_comfort, heatmap_data,
                   monthly_counts, top_months, summary_table, charts>>

\* line 18, pd.read_csv raising
LoadError ==
    /\ pc = "load"
    /\ file.kind # "table"
    /\ Raise(ReadCsvError(file.kind))

\* line 34, df["date"] on a frame without that column
DateKeyError ==
    /\ pc = "dates"
    /\ ~HasCol(df, n_date)
    /\ Raise("KeyError: date")

\* line 34, pd.to_datetime on a column with a value that is not a date
DateParseError ==
    /\ pc = "dates"
    /\ HasCol(df, n_date)
    /\ \E r \in DOMAIN df.rows : ~Parseable(Col(df, n_date)[r])
    /\ Raise("DateParseError")

\* lines 34-36
DateHandling ==
    /\ pc = "dates"
    /\ HasCol(df, n_date)
    /\ \A r \in DOMAIN df.rows : Parseable(Col(df, n_date)[r])
    /\ LET parsed == [r \in DOMAIN df.rows |-> ToDatetime(Col(df, n_date)[r])]
           d1 == SetCol(df, n_date, parsed)
           d2 == SetCol(d1, n_year, [r \in DOMAIN df.rows |-> parsed[r].year])
       IN  df' = SetCol(d2, n_month, [r \in DOMAIN df.rows |-> parsed[r].month])
    /\ pc' = "classify"
    /\ UNCHANGED <<err, file, comfortable, hot_days, yearly_stats, yearly_comfort,
                   yearly_hot, yearly, monthly_comfort, heatmap_data,
                   monthly_counts, top_months, summary_table, charts>>

\* line 39, df["temp_c"] on a frame without that column
TempKeyError ==
    /\ pc = "classify"
    /\ ~HasCol(df, n_temp_c)
    /\ Raise("KeyError: temp_c")

\* lines 39-40
Classify ==
    /\ pc = "classify"
    /\ HasCol(df, n_temp_c)
    /\ comfortable' =
           Band(df, {r \in DOMAIN df.rows : IsComfortable(Col(df, n_temp_c)[r])})
    /\ hot_days' = Band(df, {r \in DOMAIN df.rows : IsHot(Col(df, n_temp_c)[r])})
    /\ pc' = "aggregate"
    /\ UNCHANGED <<err, file, df, yearly_stats, yearly_comfort,
                   yearly_hot, yearly, monthly_comfort, heatmap_data,
                   monthly_counts, top_months, summary_table, charts>>

\* lines 43-62
YearlyAggregates ==
    /\ pc = "aggregate"
    /\ yearly_stats' = YearlyStats(df)
    /\ yearly_comfort' = SizeByYear(comfortable, "comfortable_days")
    /\ yearly_hot' = SizeByYear(hot_days, "hot_days")
    /\ pc' = "merge"
    /\ UNCHANGED <<err, file, df, comfortable, hot_days, yearly,
                   monthly_comfort, heatmap_data,
                   monthly_counts, top_months, summary_table, charts>>

\* lines 65-69
MergeYearly ==
    /\ pc = "merge"
    /\ yearly' = LeftMerge(LeftMerge(yearly_stats, yearly_comfort,
                                     {"comfortable_days"}),
                           yearly_hot, {"hot_days"})
    /\ pc' = "fill"
    /\ UNCHANGED <<err, file, df, comfortable, hot_days, yearly_stats,
                   yearly_comfort, yearly_hot, monthly_comfort, heatmap_data,
                   monthly_counts, top_months, summary_table, charts>>

\* lines 71-73
FillAndRound ==
    /\ pc = "fill"
    /\ yearly' = FinishYearly(yearly)
    /\ pc' = "sections"
    /\ UNCHANGED <<err, file, df, comfortable, hot_days, yearly_stats,
                   yearly_comfort, yearly_hot, monthly_comfort, heatmap_data,
                   monthly_counts, top_months, summary_table, charts>>

\* lines 76-136: the three charts drawn from the yearly table
RenderYearly ==
    /\ pc = "sections"
    /\ charts' = charts \o <<"fig_trends", "fig_scatter", "fig_hot">>
    /\ pc' = "monthly"
    /\ UNCHANGED <<err, file, df, comfortable, hot_days, yearly_stats,
                   yearly_comfort, yearly_hot, yearly, monthly_comfort,
                   heatmap_data, monthly_counts, top_months, summary_table>>

\* lines 139-143
MonthlyComfort ==
    /\ pc = "monthly"
    /\ monthly_comfort' = SizeByYearMonth(comfortable, "count")
    /\ pc' = "heatmap"
    /\ UNCHANGED <<err, file, df, comfortable, hot_days, yearly_stats,
                   yearly_comfort, yearly_hot, yearly, heatmap_data,
                   monthly_counts, top_months, summary_table, charts>>

\* lines 145-160
Heatmap ==
    /\ pc = "heatmap"
    /\ heatmap_data' = Pivot(monthly_comfort)
    /\ charts' = Append(charts, "fig_heatmap")
    /\ pc' = "top"
    /\ UNCHANGED <<err, file, df, comfortable, hot_days, yearly_stats,
                   yearly_comfort, yearly_hot, yearly, monthly_comfort,
                   monthly_counts, top_months, summary_table>>

\* lines 163-171
TopMonth ==
    /\ pc = "top"
    /\ monthly_counts' = SizeByYearMonth(comfortable, "monthly_days")
    /\ top_months' = TopMonths(monthly_counts')
    /\ pc' = "summary"
    /\ UNCHANGED <<err, file, df, comfortable, hot_days, yearly_stats,
                   yearly_comfort, yearly_hot, yearly, monthly_comfort,
                   heatmap_data, summary_table, charts>>

\* lines 173-212
Summary ==
    /\ pc = "summary"
    /\ summary_table' = LeftMerge(yearly,
           [i \in DOMAIN top_months |->
               [c \in {"year", "month_name", "monthly_days"} |-> top_months[i][c]]],
           {"month_name", "monthly_days"})
    /\ charts' = Append(charts, "fig_table")
    /\ pc' = "done"
    /\ UNCHANGED <<err, file, df, comfortable, hot_days, yearly_stats,
                   yearly_comfort, yearly_hot, yearly, monthly_comfort,
                   heatmap_data, monthly_counts, top_months>>

Next ==
    \/ LoadData
    \/ LoadError
    \/ RenameTemperature
    \/ AddCoordinates
    \/ DateKeyError
    \/ DateParseError
    \/ DateHandling
    \/ TempKeyError
    \/ Classify
    \/ YearlyAggregates
    \/ MergeYearly
    \/ FillAndRound
    \/ RenderYearly
    \/ MonthlyComfort
    \/ Heatmap
    \/ TopMonth
    \/ Summary

Spec == Init /\ [][Next]_vars

(* ------------------------------ vocabulary of the properties ----------- *)

\* the dates are parsed and year/month are columns of df
Dated == pc \in {"classify", "aggregate", "merge", "fill", "sections", "monthly",
                 "heatmap", "top", "summary", "done"}

\* the yearly table is complete (merged, filled, rounded)
YearlyBuilt == pc \in {"sections", "monthly", "heatmap", "top", "summary", "done"}

MonthlyBuilt == pc \in {"heatmap", "top", "summary", "done"}

HeatmapBuilt == pc \in {"top", "summary", "done"}

TopBuilt == pc \in {"summary", "done"}

\* the years of the daily records
DailyYears == {df.rows[r][ColIndex(df, n_year)] : r \in DOMAIN df.rows}

\* the daily records of year Y, and those of month m of year Y
RecordsIn(Y) ==
    LET c == ColIndex(df, n_year)
    IN  {r \in DOMAIN df.rows : df.rows[r][c] = Y}

RecordsInMonth(Y, m) ==
    LET c == ColIndex(df, n_month)
    IN  {r \in RecordsIn(Y) : df.rows[r][c] = m}

Temp(r) == df.rows[r][ColIndex(df, n_temp_c)]

ComfortableIn(Y) == {r \in RecordsIn(Y) : 18 <= Temp(r) /\ Temp(r) <= 25}

ComfortableInMonth(Y, m) ==
    {r \in RecordsInMonth(Y, m) : 18 <= Temp(r) /\ Temp(r) <= 25}

HotIn(Y) == {r \in RecordsIn(Y) : Temp(r) > 35}

\* the positions of the rows of table t for year Y
RowsFor(t, Y) == {i \in DOMAIN t : t[i].year = Y}

\* x is the whole number n
IsCount(x, n) == ~x.nan /\ x.num = n /\ x.den = 1

NothingDerived ==
    /\ comfortable = <<>> /\ hot_days = <<>>
    /\ yearly_stats = <<>> /\ yearly_comfort = <<>> /\ yearly_hot = <<>>
    /\ yearly = <<>> /\ monthly_comfort = <<>> /\ heatmap_data = NoMatrix
    /\ monthly_counts = <<>> /\ top_months = <<>> /\ summary_table = <<>>
    /\ charts = <<>>

(* ------------------------------ C1 ------------------------------------- *)

\* C1: the yearly table has exactly one row for every year of the daily
\* records and none for any other year; the comfortable-day and hot-day
\* counts of the row are numbers (0, not null, when the year has no such
\* day) between 0 and the number of daily records of the year.
C1_YearlyOneRowPerYear ==
    YearlyBuilt =>
        /\ \A Y \in DailyYears :
              /\ Cardinality(RowsFor(yearly, Y)) = 1
              /\ \A i \in RowsFor(yearly, Y) :
                    /\ ~yearly[i].comfortable_days.nan
                    /\ yearly[i].comfortable_days.den = 1
                    /\ 0 <= yearly[i].comfortable_days.num
                    /\ yearly[i].comfortable_days.num <= Cardinality(RecordsIn(Y))
                    /\ ~yearly[i].hot_days.nan
                    /\ yearly[i].hot_days.den = 1
                    /\ 0 <= yearly[i].hot_days.num
                    /\ yearly[i].hot_days.num <= Cardinality(RecordsIn(Y))
        /\ \A i \in DOMAIN yearly : yearly[i].year \in DailyYears

\* two years, one without a comfortable day and one without a hot day
C1_Witness ==
    /\ pc = "done"
    /\ Len(yearly) = 2
    /\ \E i \in DOMAIN yearly : IsCount(yearly[i].comfortable_days, 0)
                                /\ yearly[i].hot_days.num > 0
    /\ \E i \in DOMAIN yearly : IsCount(yearly[i].hot_days, 0)
                                /\ yearly[i].comfortable_days.num > 0

(* ------------------------------ C2 ------------------------------------- *)

\* C2: comfortable_days(Y) is the number of daily records of Y with
\* 18 <= t <= 25 and hot_days(Y) the number of those with t > 35.
C2_BandCounts ==
    YearlyBuilt =>
        \A Y \in DailyYears : \A i \in RowsFor(yearly, Y) :
            /\ IsCount(yearly[i].comfortable_days, Cardinality(ComfortableIn(Y)))
            /\ IsCount(yearly[i].hot_days, Cardinality(HotIn(Y)))

\* a year with records at 18, 25 and 35 degrees: two comfortable days, no
\* hot day
C2_Witness ==
    /\ pc = "done"
    /\ \E Y \in DailyYears : \E i \in RowsFor(yearly, Y) :
          /\ {Temp(r) : r \in RecordsIn(Y)} = {18, 25, 35}
          /\ IsCount(yearly[i].comfortable_days, 2)
          /\ IsCount(yearly[i].hot_days, 0)

(* ------------------------------ C3 ------------------------------------- *)

\* the sum of the monthly comfortable-day counts of year Y
MonthlySum(Y) ==
    LET rs == SelectRows(monthly_comfort, RowsFor(monthly_comfort, Y))
    IN  SumSeq([i \in DOMAIN rs |-> rs[i].count.num])

\* C3: for every year the monthly comfortable-day counts sum to the yearly
\* comfortable_days (0 when the year has no monthly row), and every monthly
\* row has a count of at least 1.
C3_MonthlySumsToYearly ==
    MonthlyBuilt =>
        /\ \A Y \in DailyYears : \A i \in RowsFor(yearly, Y) :
              IsCount(yearly[i].comfortable_days, MonthlySum(Y))
        /\ \A i \in DOMAIN monthly_comfort :
              /\ ~monthly_comfort[i].count.nan
              /\ monthly_comfort[i].count.den = 1
              /\ monthly_comfort[i].count.num >= 1

\* a year whose comfortable days lie in two months, and a year without any
C3_Witness ==
    /\ pc = "done"
    /\ \E Y \in DailyYears :
          /\ Cardinality(RowsFor(monthly_comfort, Y)) = 2
          /\ MonthlySum(Y) = 2
    /\ \E Y \in DailyYears : RowsFor(monthly_comfort, Y) = {}

(* ------------------------------ C4 ------------------------------------- *)

\* C4: the heatmap matrix has a cell for every year of the daily records
\* and every month 1..12, holding the monthly count, or 0 when the month has
\* no comfortable day.
C4_HeatmapDense ==
    HeatmapBuilt =>
        \A Y \in DailyYears : \A m \in 1..12 :
            /\ <<Y, m>> \in DOMAIN heatmap_data.values
            /\ IsCount(heatmap_data.values[<<Y, m>>],
                       Cardinality(ComfortableInMonth(Y, m)))

(* ------------------------------ C5 ------------------------------------- *)

\* the calendar
CalendarName(m) ==
    CASE m = 1 -> "January" [] m = 2 -> "February" [] m = 3 -> "March"
      [] m = 4 -> "April" [] m = 5 -> "May" [] m = 6 -> "June"
      [] m = 7 -> "July" [] m = 8 -> "August" [] m = 9 -> "September"
      [] m = 10 -> "October" [] m = 11 -> "November" [] m = 12 -> "December"

\* the largest number of comfortable days in one month of year Y
MaxMonthly(Y) ==
    CHOOSE c \in 0..Cardinality(RecordsIn(Y)) :
        /\ \E m \in 1..12 : Cardinality(ComfortableInMonth(Y, m)) = c
        /\ \A m \in 1..12 : Cardinality(ComfortableInMonth(Y, m)) <= c

\* C5: every year with a comfortable day has exactly one top-month row; its
\* count is the largest monthly count of the year, its month the lowest month
\* with that count, and its name the calendar name of that month.
C5_TopMonthIsFirstMax ==
    TopBuilt =>
        \A Y \in DailyYears :
            ComfortableIn(Y) # {} =>
                /\ Cardinality(RowsFor(top_months, Y)) = 1
                /\ \A i \in RowsFor(top_months, Y) :
                      /\ IsCount(top_months[i].monthly_days, MaxMonthly(Y))
                      /\ Cardinality(ComfortableInMonth(Y, top_months[i].month))
                             = MaxMonthly(Y)
                      /\ \A m \in 1..(top_months[i].month - 1) :
                             Cardinality(ComfortableInMonth(Y, m)) < MaxMonthly(Y)
                      /\ top_months[i].month_name = Str(CalendarName(top_months[i].month))

\* a year whose January and February tie, the February record coming first
\* in the file: January is reported
C5_Witness ==
    /\ pc = "done"
    /\ \E Y \in DailyYears : \E i \in RowsFor(top_months, Y) :
          /\ Cardinality(ComfortableInMonth(Y, 1)) = 1
          /\ Cardinality(ComfortableInMonth(Y, 2)) = 1
          /\ \E r1 \in ComfortableInMonth(Y, 1), r2 \in ComfortableInMonth(Y, 2) :
                r2 < r1
          /\ top_months[i].month = 1
          /\ top_months[i].month_name = Str("January")

(* ------------------------------ C6 ------------------------------------- *)

\* the years that have daily records and no comfortable day
YearsWithoutComfort == {Y \in DailyYears : ComfortableIn(Y) = {}}

\* C6 as claimed: a year with records and no comfortable day has a summary
\* row with a null month name, a monthly_days of zero, comfortable_days = 0
\* and comfort_ratio = 0.0.
C6_NoComfortRowHasZeroDays ==
    pc = "done" =>
        \A Y \in YearsWithoutComfort :
            /\ Cardinality(RowsFor(summary_table, Y)) = 1
            /\ \A i \in RowsFor(summary_table, Y) :
                  /\ summary_table[i].month_name.nan
                  /\ ~summary_table[i].monthly_days.nan
                  /\ summary_table[i].monthly_days.num = 0
                  /\ IsCount(summary_table[i].comfortable_days, 0)
                  /\ ~summary_table[i].comfort_ratio.nan
                  /\ summary_table[i].comfort_ratio.num = 0

\* C6 (amended): a year with records and no comfortable day has a summary
\* row whose month name and monthly_days are both null (NaN), with
\* comfortable_days = 0 and comfort_ratio = 0.0; the script runs to its end.
C6_NoComfortRowHasNullMonth ==
    /\ pc = "done" =>
          \A Y \in YearsWithoutComfort :
              /\ Cardinality(RowsFor(summary_table, Y)) = 1
              /\ \A i \in RowsFor(summary_table, Y) :
                    /\ summary_table[i].month_name.nan
                    /\ summary_table[i].monthly_days.nan
                    /\ IsCount(summary_table[i].comfortable_days, 0)
                    /\ ~summary_table[i].comfort_ratio.nan
                    /\ summary_table[i].comfort_ratio.num = 0
    /\ (pc = "summary" /\ YearsWithoutComfort # {}) => ENABLED Summary

\* a year without a comfortable day next to a year with one
C6_Witness ==
    /\ pc = "done"
    /\ YearsWithoutComfort # {}
    /\ \E Y \in DailyYears : ComfortableIn(Y) # {}
    /\ \E i \in DOMAIN summary_table :
          /\ summary_table[i].year \in YearsWithoutComfort
          /\ summary_table[i].monthly_days.nan

(* ------------------------------ C7 ------------------------------------- *)

\* C7: in the yearly table the temperature standard deviation of a year
\* with exactly one daily record is NaN, and that of a year with two or more
\* records is the sample standard deviation (temp_std holds its square, the
\* sample variance, as the fraction (n*sum(t^2) - sum(t)^2) / (n*(n-1))).
C7_SingleRecordStdIsNaN ==
    YearlyBuilt =>
        \A Y \in DailyYears : \A i \in RowsFor(yearly, Y) :
            LET n == Cardinality(RecordsIn(Y))
                rs == SelectRows(df.rows, RecordsIn(Y))
                ts == [k \in DOMAIN rs |-> rs[k][ColIndex(df, n_temp_c)]]
                s == SumSeq(ts)
                q == SumSeq([k \in DOMAIN ts |-> ts[k] * ts[k]])
            IN  IF n = 1 THEN yearly[i].temp_std.nan
                ELSE /\ ~yearly[i].temp_std.nan
                     /\ yearly[i].temp_std.num * (n * (n - 1))
                            = (n * q - s * s) * yearly[i].temp_std.den

(* ------------------------------ C8 ------------------------------------- *)

\* the texts of the input files that are not calendar dates
BadDateTexts == {<<2001, 2, 30>>, <<2000, 13, 1>>}

\* the position, in the file's header, of the date column; 0 when none
DateColumn ==
    LET hits == {i \in DOMAIN file.header : Lower(Strip(file.header[i])) = n_date}
    IN  IF hits = {} THEN 0 ELSE CHOOSE i \in hits : TRUE

\* some row of the file has a date that cannot be parsed
HasBadDate ==
    LET c == DateColumn
    IN  /\ file.kind = "table"
        /\ c # 0
        /\ \E r \in DOMAIN file.rows : file.rows[r][c] \in BadDateTexts

\* the exception a missing temperature column ends in: the lookup
\* df["temp_c"] of line 39
SchemaError == "KeyError: temp_c"

\* the position, in the file's header, of the column the claim names as the
\* temperature column: the one normalised to temp_c, else the first one
\* whose normalised name contains "temp"; 0 when there is none
ExpectedTempColumn ==
    LET names == [i \in DOMAIN file.header |-> Lower(Strip(file.header[i]))]
        exact == {i \in DOMAIN names : names[i] = n_temp_c}
        fuzzy == {i \in DOMAIN names : Contains(names[i], n_temp)}
    IN  IF exact # {} THEN CHOOSE i \in exact : TRUE
        ELSE IF fuzzy # {} THEN CHOOSE i \in fuzzy : \A j \in fuzzy : i <= j
        ELSE 0

\* the temperature column is resolved, and is the one the claim names
TempResolved ==
    LET c == ExpectedTempColumn
    IN  /\ HasCol(df, n_temp_c)
        /\ \A r \in DOMAIN df.rows : Temp(r) = file.rows[r][c]

\* C8 as claimed: when no column of the loaded table contains "temp", the
\* run fails with the schema error.
C8_NoTempAlwaysSchemaError ==
    (file.kind = "table" /\ ExpectedTempColumn = 0 /\ pc = "failed")
        => err = SchemaError

\* C8 (amended): in a loaded table a column normalised to temp_c is the
\* temperature column; otherwise the first column containing "temp" is;
\* when there is none the
\* run fails before any band or aggregate is computed, with the KeyError of
\* temp_c at the classification step unless date handling failed first.
C8_TempColumnResolution ==
    LET c == ExpectedTempColumn
    IN  /\ (c # 0
               /\ pc \in {"coords", "dates", "classify", "aggregate", "merge",
                          "fill", "sections", "monthly", "heatmap", "top",
                          "summary", "done"})
              => TempResolved
        /\ (file.kind = "table" /\ c = 0) =>
              /\ pc \in {"load", "rename", "coords", "dates", "classify", "failed"}
              /\ NothingDerived
              /\ pc = "classify" => (ENABLED TempKeyError /\ ~ENABLED Classify)
              /\ pc = "failed" =>
                    err = (IF DateColumn = 0 THEN "KeyError: date"
                           ELSE IF HasBadDate THEN "DateParseError"
                           ELSE SchemaError)
        /\ (pc = "failed" /\ err = SchemaError) => (file.kind = "table" /\ c = 0)

\* a file without a temperature column has failed at the classification
C8_Witness ==
    /\ pc = "failed"
    /\ err = SchemaError
    /\ ExpectedTempColumn = 0
    /\ Len(df.rows) >= 2

(* ------------------------------ C9 ------------------------------------- *)

\* C9: when the date of any row cannot be parsed, the run aborts with
\* DateParseError at the date-parsing step: no row is dropped from the
\* frame, the dates are not replaced, and no classified subset, table,
\* matrix or chart is ever produced.
C9_BadDateAbortsLoad ==
    HasBadDate =>
        /\ pc \in {"load", "rename", "coords", "dates", "failed"}
        /\ NothingDerived
        /\ pc = "dates" => (ENABLED DateParseError /\ ~ENABLED DateHandling)
        /\ pc = "failed" => err = "DateParseError"
        /\ pc # "load" =>
              /\ Len(df.rows) = Len(file.rows)
              /\ ~HasCol(df, n_year)
              /\ LET c == DateColumn
                 IN  \A r \in DOMAIN df.rows : df.rows[r][c] = file.rows[r][c]

\* a file with a good row and a bad one has failed, nothing was derived from
\* the good row
C9_Witness ==
    /\ pc = "failed"
    /\ err = "DateParseError"
    /\ LET c == DateColumn
       IN  /\ \E r \in DOMAIN file.rows : file.rows[r][c] \in BadDateTexts
           /\ \E r \in DOMAIN file.rows : file.rows[r][c] \notin BadDateTexts
    /\ NothingDerived

(* ------------------------------ C10 ------------------------------------ *)

\* C10: the summary table has exactly the rows of the yearly table, one per
\* year of the daily records, with year, avg_temp_c, comfortable_days,
\* hot_days and comfort_ratio unchanged; the top-month table has at most one
\* row per year; a monthly_days that is present satisfies
\* 1 <= monthly_days <= comfortable_days.
C10_SummaryKeepsYearlyRows ==
    pc = "done" =>
        /\ Len(summary_table) = Len(yearly)
        /\ \A Y \in DailyYears : Cardinality(RowsFor(summary_table, Y)) = 1
        /\ \A Y \in DailyYears : Cardinality(RowsFor(top_months, Y)) <= 1
        /\ \A i \in DOMAIN summary_table :
              /\ summary_table[i].year = yearly[i].year
              /\ summary_table[i].avg_temp_c = yearly[i].avg_temp_c
              /\ summary_table[i].comfortable_days = yearly[i].comfortable_days
              /\ summary_table[i].hot_days = yearly[i].hot_days
              /\ summary_table[i].comfort_ratio = yearly[i].comfort_ratio
              /\ ~summary_table[i].monthly_days.nan =>
                    /\ summary_table[i].monthly_days.den = 1
                    /\ 1 <= summary_table[i].monthly_days.num
                    /\ summary_table[i].monthly_days.num
                           <= summary_table[i].comfortable_days.num

\* two years in the summary, one of them with two months tied for the top
C10_Witness ==
    /\ pc = "done"
    /\ Len(summary_table) = 2
    /\ \E Y \in DailyYears :
          /\ Cardinality(RowsFor(monthly_counts, Y)) = 2
          /\ \A i \in RowsFor(monthly_counts, Y) :
                IsCount(monthly_counts[i].monthly_days, 1)
          /\ \E i \in RowsFor(summary_table, Y) :
                IsCount(summary_table[i].monthly_days, 1)

====
